---- MODULE Spec2Model ----
(***************************************************************************)
(* Model of pdp/data_utils/file_utils.py: download_file, download_files,   *)
(* download_files_to_s3 and upload_directory, with the file system, the    *)
(* S3 bucket and the external tools (curl, rclone) they act on.            *)
(*                                                                         *)
(* A URL is the sequence of its "/"-separated segments, a path the         *)
(* sequence of its components (an absolute path starts with "/"), so       *)
(* that os.path.basename, os.path.dirname and os.path.join are computed    *)
(* and not assumed.  A behaviour is one world followed by one call.        *)
(***************************************************************************)
EXTENDS Integers, Sequences, FiniteSets, TLC

VARIABLES
    op,             \* the function called: "idle" before the call
    pc,             \* position in the running function
    exc,            \* the exception propagating out of the call, or "none"
    urls,           \* argument urls
    output_dir,     \* download_files: output_dir after line 21
    skip_existing,  \* argument skip_existing
    skip_urls,      \* local skip_urls
    listing,        \* download_files: what os.listdir(output_dir) returned
    idx,            \* position of the for loop over urls
    prefix,         \* download_files_to_s3: argument prefix
    dl_url,         \* download_file: argument url
    output_path,    \* download_file: output_path (None until line 97)
    ret,            \* where download_file returns to
    curl_rc,        \* exit status of the last curl run (dropped by the code)
    files,          \* file system: absolute paths of the files
    dirs,           \* file system: absolute paths of the directories
    bucket,         \* S3: the keys of the objects in s3_bucket
    bucket0,        \* S3: the keys in s3_bucket when the call began
    trace,          \* the calls made so far, in order
    remove_deleted_files, \* upload_directory: argument
    has_dir_files,  \* upload_directory: dir_files is not None
    dir_files,      \* upload_directory: argument dir_files (<<>> when None)
    command,        \* upload_directory: local command
    list_file,      \* content of file_list.txt, as written
    local_tree,     \* the files under local_path
    remote,         \* the files under the bucket path
    rclone_argv,    \* the argv rclone was started with (<<>>: not started)
    transferred     \* the files rclone copied to the remote

vars == <<op, pc, exc, urls, output_dir, skip_existing, skip_urls, listing,
          idx, prefix, dl_url, output_path, ret, curl_rc, files, dirs, bucket,
          bucket0, trace,
          remove_deleted_files, has_dir_files, dir_files, command, list_file,
          local_tree, remote, rclone_argv, transferred>>

dlVars == <<urls, output_dir, skip_existing, skip_urls, listing, idx, prefix>>
fileVars == <<dl_url, output_path, ret, curl_rc>>
udVars == <<remove_deleted_files, has_dir_files, dir_files, command, list_file,
            local_tree, remote, rclone_argv, transferred>>

----------------------------------------------------------------------------
(* Bounds *)

MaxUrls == 2        \* longest urls argument
MaxDirFiles == 2    \* longest dir_files argument
PageSize == 2       \* keys in one list_objects_v2 response (1000 in S3)

----------------------------------------------------------------------------
(* Values *)

None == <<"None">>

Urls == { <<"http://x", "a.bin">>, <<"http://x", "b.bin">>,
          <<"http://x", "c.bin">>, <<"http://y", "a.bin">> }

Cwd == <<"/", "cwd">>
OutDir == <<"/", "out">>
TmpDir == <<"/", "tmp", "tmpd">>
UploadTmpDir == <<"/", "tmp", "tmpu">>

Prefixes == { <<"p">>, <<"q">> }

SeqsUpTo(S, n) == UNION { [1..k -> S] : k \in 0..n }

\* os.path.basename(url): what follows the last "/"
Basename(p) == p[Len(p)]

\* os.path.dirname(path): "" (the empty path) for a path with one component
Dirname(p) == SubSeq(p, 1, Len(p) - 1)

\* os.path.join(a, b)
PathJoin(a, b) == a \o <<b>>

\* os.path.abspath(path), with the process's working directory
Abspath(p) == IF p # <<>> /\ p[1] = "/" THEN p ELSE Cwd \o p

IsPrefixOf(d, p) == Len(d) <= Len(p) /\ SubSeq(p, 1, Len(d)) = d

\* the directories os.makedirs(path) leaves in place
Ancestors(p) == { SubSeq(p, 1, k) : k \in 1..Len(p) }

\* os.listdir(d): the names of the direct entries of d
Listdir(d) == { Basename(p) : p \in { q \in files \cup dirs :
                                        Len(q) = Len(d) + 1 /\ IsPrefixOf(d, q) } }

Event(e, u, p, k, r) == [ev |-> e, url |-> u, path |-> p, key |-> k, rc |-> r]

\* an exception leaves the function; in download_files_to_s3 it leaves the
\* with block first
Raise(e) ==
    /\ exc' = e
    /\ pc' = IF op = "download_files_to_s3" THEN "s3_exit" ELSE "done"

----------------------------------------------------------------------------
(* download_file *)

\* the call download_file(u, p) made from a caller that resumes at r
InvokeDownloadFile(u, p, r) ==
    /\ dl_url' = u
    /\ output_path' = p
    /\ ret' = r
    /\ curl_rc' = 0
    /\ trace' = Append(trace, Event("download_file", u, p, None, 0))
    /\ pc' = "dl_makedirs"

Call_download_file ==
    /\ op = "idle"
    /\ \E u \in Urls, p \in {None, <<"sub", "f.bin">>, PathJoin(OutDir, "f.bin")} :
          InvokeDownloadFile(u, p, "done")
    /\ op' = "download_file"
    /\ UNCHANGED <<bucket0, exc, dlVars, files, dirs, bucket, udVars>>

\* lines 96-98: the default output_path, then os.makedirs(dirname, exist_ok=True)
download_file_makedirs ==
    /\ pc = "dl_makedirs"
    /\ LET path == IF output_path = None THEN <<Basename(dl_url)>> ELSE output_path
           dir == Dirname(path)
       IN /\ output_path' = path
          /\ IF dir = <<>>
                THEN \* os.makedirs('') raises FileNotFoundError
                     /\ Raise("FileNotFoundError")
                     /\ dirs' = dirs
                ELSE /\ dirs' = dirs \cup Ancestors(Abspath(dir))
                     /\ pc' = "dl_curl"
                     /\ exc' = exc
    /\ UNCHANGED <<bucket0, op, dlVars, dl_url, ret, curl_rc, files, bucket,
                   trace, udVars>>

\* line 99: subprocess.call(['curl', ...]); the exit status is not looked at
download_file_curl ==
    /\ pc = "dl_curl"
    /\ \E outcome \in {"ok", "failed", "failed_partial"} :
          /\ curl_rc' = IF outcome = "ok" THEN 0 ELSE 1
          /\ files' = IF outcome = "failed" THEN files
                      ELSE files \cup {Abspath(output_path)}
          /\ trace' = Append(trace, Event("curl", dl_url, output_path, None,
                                          IF outcome = "ok" THEN 0 ELSE 1))
    /\ pc' = ret
    /\ UNCHANGED <<bucket0, op, exc, dlVars, dl_url, output_path, ret, dirs,
                   bucket, udVars>>

----------------------------------------------------------------------------
(* download_files *)

Call_download_files ==
    /\ op = "idle"
    /\ op' = "download_files"
    /\ urls' \in SeqsUpTo(Urls, MaxUrls)
    /\ \E od \in {None, OutDir} :
          \* lines 19-21
          output_dir' = IF od = None THEN Abspath(<<>>) ELSE Abspath(od)
    /\ skip_existing' \in BOOLEAN
    /\ pc' = "df_skip"
    /\ UNCHANGED <<bucket0, exc, skip_urls, listing, idx, prefix, fileVars,
                   files, dirs, bucket, trace, udVars>>

\* lines 28-38
download_files_skip ==
    /\ pc = "df_skip"
    /\ IF skip_existing /\ urls # <<>> /\ output_dir \notin dirs
          THEN \* os.listdir raises
               /\ Raise("FileNotFoundError")
               /\ UNCHANGED <<skip_urls, listing, idx>>
          ELSE /\ skip_urls' = IF skip_existing
                                  THEN { urls[i] : i \in { j \in 1..Len(urls) :
                                           Basename(urls[j]) \in Listdir(output_dir) } }
                                  ELSE {}
               /\ listing' = IF skip_existing /\ urls # <<>>
                                 THEN Listdir(output_dir) ELSE listing
               /\ idx' = 1
               /\ pc' = "df_loop"
               /\ exc' = exc
    /\ UNCHANGED <<bucket0, op, urls, output_dir, skip_existing, prefix,
                   fileVars, files, dirs, bucket, trace, udVars>>

\* lines 41-43: one iteration of the loop
download_files_loop ==
    /\ pc = "df_loop"
    /\ IF idx > Len(urls)
          THEN /\ pc' = "done"
               /\ UNCHANGED <<idx, fileVars, trace>>
          ELSE /\ idx' = idx + 1
               /\ IF urls[idx] \in skip_urls
                     THEN UNCHANGED <<pc, fileVars, trace>>
                     ELSE InvokeDownloadFile(urls[idx], None, "df_loop")
    /\ UNCHANGED <<bucket0, op, exc, urls, output_dir, skip_existing,
                   skip_urls, listing, prefix, files, dirs, bucket, udVars>>

----------------------------------------------------------------------------

----------------------------------------------------------------------------
(* download_files_to_s3 *)

\* the key the pipeline derives for a URL (lines 69 and 83)
KeyOf(pfx, u) == PathJoin(pfx, Basename(u))

\* S3 returns keys in ascending UTF-8 binary order
NameRank(n) == CASE n = "a.bin" -> 1 [] n = "b.bin" -> 2 [] n = "c.bin" -> 3

\* s3_client.list_objects_v2(Bucket, Prefix): one response holds the first
\* PageSize keys under the prefix, and the code reads no further page
ListObjectsV2(pfx) ==
    LET under == { k \in bucket : IsPrefixOf(pfx, k) }
    IN { k \in under :
           Cardinality({ j \in under : NameRank(Basename(j)) < NameRank(Basename(k)) })
              < PageSize }

\* the scratch files: the files under tmp_dir
ScratchFiles == { f \in files : IsPrefixOf(TmpDir, f) }

\* line 59: entering the with block creates the temporary directory
Call_download_files_to_s3 ==
    /\ op = "idle"
    /\ op' = "download_files_to_s3"
    /\ urls' \in SeqsUpTo(Urls, MaxUrls)
    /\ prefix' \in Prefixes
    /\ skip_existing' \in BOOLEAN
    /\ dirs' = dirs \cup {TmpDir}
    /\ pc' = "s3_skip"
    /\ UNCHANGED <<bucket0, exc, output_dir, skip_urls, listing, idx,
                   fileVars, files, bucket, trace, udVars>>

\* lines 65-76
download_files_to_s3_skip ==
    /\ pc = "s3_skip"
    /\ \/ /\ skip_existing
          /\ Raise("ListingError")  \* list_objects_v2 raises
          /\ UNCHANGED <<skip_urls, listing, idx>>
       \/ /\ LET Contents == ListObjectsV2(prefix)
             IN skip_urls' =
                  IF skip_existing /\ Contents # {}
                     THEN { urls[i] : i \in { j \in 1..Len(urls) :
                                                KeyOf(prefix, urls[j]) \in Contents } }
                     ELSE {}
          /\ listing' = listing
          /\ idx' = 1
          /\ pc' = "s3_loop"
          /\ exc' = exc
    /\ UNCHANGED <<bucket0, op, urls, output_dir, skip_existing, prefix,
                   fileVars, files, dirs, bucket, trace, udVars>>

\* lines 79-82: one iteration of the loop, up to the call of download_file
download_files_to_s3_loop ==
    /\ pc = "s3_loop"
    /\ IF idx > Len(urls)
          THEN /\ pc' = "s3_exit"
               /\ UNCHANGED <<idx, fileVars, trace>>
          ELSE IF urls[idx] \in skip_urls
                  THEN /\ idx' = idx + 1
                       /\ UNCHANGED <<pc, fileVars, trace>>
                  ELSE /\ InvokeDownloadFile(urls[idx],
                                             PathJoin(TmpDir, Basename(urls[idx])),
                                             "s3_upload")
                       /\ idx' = idx
    /\ UNCHANGED <<bucket0, op, exc, urls, output_dir, skip_existing,
                   skip_urls, listing, prefix, files, dirs, bucket, udVars>>

\* line 83: s3_client.upload_file(local_path, s3_bucket, key)
download_files_to_s3_upload ==
    /\ pc = "s3_upload"
    /\ LET local_path == PathJoin(TmpDir, Basename(urls[idx]))
           key == KeyOf(prefix, urls[idx])
       IN IF local_path \notin files
             THEN \* nothing to upload: the transfer raises
                  /\ Raise("FileNotFoundError")
                  /\ UNCHANGED <<bucket, trace>>
             ELSE \/ /\ bucket' = bucket \cup {key}
                     /\ trace' = Append(trace,
                                   Event("upload_file", urls[idx], local_path, key, 0))
                     /\ pc' = "s3_remove"
                     /\ exc' = exc
                  \/ /\ Raise("S3UploadFailedError")
                     /\ UNCHANGED <<bucket, trace>>
    /\ UNCHANGED <<bucket0, op, dlVars, fileVars, files, dirs, udVars>>

\* line 84 without the removal: the scratch file stays
download_files_to_s3_remove_KeepsFile ==
    /\ pc = "s3_remove"
    /\ trace' = Append(trace, Event("remove", urls[idx],
                                    PathJoin(TmpDir, Basename(urls[idx])), None, 0))
    /\ idx' = idx + 1
    /\ pc' = "s3_loop"
    /\ UNCHANGED <<bucket0, op, exc, urls, output_dir, skip_existing,
                   skip_urls, listing, prefix, fileVars, files, dirs, bucket,
                   udVars>>

\* line 84: os.remove(local_path), then the next iteration
download_files_to_s3_remove ==
    /\ pc = "s3_remove"
    /\ LET local_path == PathJoin(TmpDir, Basename(urls[idx]))
       IN \/ /\ files' = files \ {local_path}
             /\ trace' = Append(trace, Event("remove", urls[idx], local_path, None, 0))
             /\ idx' = idx + 1
             /\ pc' = "s3_loop"
             /\ exc' = exc
          \/ /\ Raise("OSError")
             /\ UNCHANGED <<files, trace, idx>>
    /\ UNCHANGED <<bucket0, op, urls, output_dir, skip_existing, skip_urls,
                   listing, prefix, fileVars, dirs, bucket, udVars>>

\* a temporary directory that is removed only at the end of the block, and
\* is left behind by an exception
download_files_to_s3_exit_OnlyOnSuccess ==
    /\ pc = "s3_exit"
    /\ files' = IF exc = "none" THEN files \ ScratchFiles ELSE files
    /\ dirs' = IF exc = "none" THEN dirs \ {TmpDir} ELSE dirs
    /\ pc' = "done"
    /\ UNCHANGED <<bucket0, op, exc, dlVars, fileVars, bucket, trace, udVars>>

\* leaving the with block of line 59, normally or by an exception:
\* TemporaryDirectory.__exit__ removes the directory and what is in it
download_files_to_s3_exit ==
    /\ pc = "s3_exit"
    /\ files' = files \ ScratchFiles
    /\ dirs' = dirs \ {TmpDir}
    /\ pc' = "done"
    /\ UNCHANGED <<bucket0, op, exc, dlVars, fileVars, bucket, trace, udVars>>

----------------------------------------------------------------------------
(* upload_directory *)

\* file names under local_path and under the bucket path
TreeNames == {".h", "a", "\".h\""}
RemoteNames == {"a", "o"}
ListNames == {"a", ".h", "b"}

\* the characters of the strings the model holds
Chars(s) ==
    CASE s = ".h" -> <<".", "h">>
      [] s = "a" -> <<"a">>
      [] s = "b" -> <<"b">>
      [] s = "o" -> <<"o">>
      [] s = "\".h\"" -> <<"\"", ".", "h", "\"">>
      [] s = ".*" -> <<".", "*">>
      [] s = "\".*\"" -> <<"\"", ".", "*", "\"">>

TempPath == PathJoin(UploadTmpDir, "file_list.txt")
TempPathStr == "/tmp/tmpu/file_list.txt"

\* a mode that ignores remove_deleted_files
ActionOf_AlwaysCopy(rdf) == "copy"

\* lines 150-153
ActionOf(rdf) == IF rdf THEN "sync" ELSE "copy"

\* line 174: the pattern argument, as the list element the code appends
ExcludePattern == "\".*\""

\* '\n'.join(dir_files), a sequence of names and newlines
RECURSIVE JoinLines(_)
JoinLines(fs) ==
    IF fs = <<>> THEN <<>>
    ELSE IF Len(fs) = 1 THEN <<fs[1]>>
    ELSE <<fs[1], "\n">> \o JoinLines(Tail(fs))

\* rclone reads --files-from one path per line
ReadLines(content) == SelectSeq(content, LAMBDA t : t # "\n")

\* rclone matches a name against a glob: "*" stands for any characters but
\* "/", every other character of the pattern for itself
RECURSIVE GlobMatch(_, _)
GlobMatch(pat, name) ==
    IF pat = <<>> THEN name = <<>>
    ELSE IF Head(pat) = "*"
            THEN \/ GlobMatch(Tail(pat), name)
                 \/ name # <<>> /\ Head(name) # "/" /\ GlobMatch(pat, Tail(name))
            ELSE name # <<>> /\ Head(name) = Head(pat)
                             /\ GlobMatch(Tail(pat), Tail(name))

\* the names rclone's filter lets through, for the argv it was given
Included(argv, n) ==
    IF Len(argv) >= 7 /\ argv[6] = "--files-from"
       THEN argv[7] = TempPathStr
            /\ \E k \in 1..Len(ReadLines(list_file)) : ReadLines(list_file)[k] = n
    ELSE IF Len(argv) >= 7 /\ argv[6] = "--exclude"
       THEN ~GlobMatch(Chars(argv[7]), Chars(n))
    ELSE TRUE

Call_upload_directory ==
    /\ op = "idle"
    /\ op' = "upload_directory"
    /\ remove_deleted_files' \in BOOLEAN
    /\ has_dir_files' \in BOOLEAN
    /\ dir_files' \in SeqsUpTo(ListNames, MaxDirFiles)
    /\ has_dir_files' \/ dir_files' = <<>>
    /\ pc' = "ud_command"
    /\ UNCHANGED <<bucket0, exc, dlVars, fileVars, files, dirs, bucket, trace,
                   command, list_file, local_tree, remote, rclone_argv,
                   transferred>>

\* lines 150-161
upload_directory_command ==
    /\ pc = "ud_command"
    /\ command' = <<"rclone", ActionOf(remove_deleted_files), "local_path",
                    "paradigm-data-portal:bucket_path", "-v">>
    /\ pc' = "ud_filter"
    /\ UNCHANGED <<bucket0, op, exc, dlVars, fileVars, files, dirs, bucket,
                   trace, remove_deleted_files, has_dir_files, dir_files,
                   list_file, local_tree, remote, rclone_argv, transferred>>

\* lines 163-174
upload_directory_filter ==
    /\ pc = "ud_filter"
    /\ IF has_dir_files
          THEN /\ dirs' = dirs \cup {UploadTmpDir}
               /\ files' = files \cup {TempPath}
               /\ list_file' = JoinLines(dir_files)
               /\ command' = command \o <<"--files-from", TempPathStr>>
          ELSE /\ command' = command \o <<"--exclude", ExcludePattern>>
               /\ UNCHANGED <<dirs, files, list_file>>
    /\ pc' = "ud_call"
    /\ UNCHANGED <<bucket0, op, exc, dlVars, fileVars, bucket, trace,
                   remove_deleted_files, has_dir_files, dir_files, local_tree,
                   remote, rclone_argv, transferred>>

\* line 176: subprocess.call(command); the function ends here, and the exit
\* status is not looked at
upload_directory_call ==
    /\ pc = "ud_call"
    /\ \E outcome \in {"ok", "failed", "not_started"} :
          /\ rclone_argv' = IF outcome = "not_started" THEN <<>> ELSE command
          /\ IF outcome = "ok"
                THEN LET sel == { n \in local_tree : Included(command, n) }
                     IN /\ transferred' = sel
                        /\ remote' = IF command[2] = "sync"
                                        THEN sel \cup { r \in remote :
                                                          ~Included(command, r) }
                                        ELSE remote \cup sel
                ELSE UNCHANGED <<transferred, remote>>
          /\ exc' = IF outcome = "not_started" THEN "FileNotFoundError" ELSE exc
    /\ pc' = "done"
    /\ UNCHANGED <<bucket0, op, dlVars, fileVars, files, dirs, bucket, trace,
                   remove_deleted_files, has_dir_files, dir_files, command,
                   list_file, local_tree>>

----------------------------------------------------------------------------

BaseDirs == {<<"/">>, Cwd, <<"/", "tmp">>}

\* the objects the bucket may hold before the call
InitialKeys == { <<"p", "a.bin">>, <<"p", "b.bin">>, <<"p", "c.bin">>, <<"q", "a.bin">> }

Init ==
    /\ op = "idle"
    /\ pc = "idle"
    /\ exc = "none"
    /\ urls = <<>>
    /\ output_dir = <<>>
    /\ skip_existing = FALSE
    /\ skip_urls = {}
    /\ listing = {}
    /\ idx = 1
    /\ prefix = <<>>
    /\ dl_url = <<>>
    /\ output_path = None
    /\ ret = "done"
    /\ curl_rc = 0
    /\ trace = <<>>
    /\ remove_deleted_files = FALSE
    /\ has_dir_files = FALSE
    /\ dir_files = <<>>
    /\ command = <<>>
    /\ list_file = <<>>
    /\ rclone_argv = <<>>
    /\ transferred = {}
    \* the world before the call: files on disk, or objects in the bucket, or
    \* a directory tree to upload
    /\ \/ /\ bucket = {} /\ local_tree = {} /\ remote = {}
          /\ \E d \in {Cwd, OutDir}, od \in BOOLEAN,
                present \in SUBSET {"a.bin", "b.bin"} :
                /\ dirs = BaseDirs \cup (IF od THEN {OutDir} ELSE {})
                /\ files = IF d \in dirs THEN { PathJoin(d, n) : n \in present } ELSE {}
       \/ /\ bucket \in SUBSET InitialKeys
          /\ dirs = BaseDirs /\ files = {} /\ local_tree = {} /\ remote = {}
       \/ /\ local_tree \in SUBSET TreeNames
          /\ remote \in SUBSET RemoteNames
          /\ dirs = BaseDirs /\ files = {} /\ bucket = {}
    /\ bucket0 = bucket

Next ==
    \/ Call_download_file
    \/ download_file_makedirs
    \/ download_file_curl
    \/ Call_download_files
    \/ download_files_skip
    \/ download_files_loop
    \/ Call_download_files_to_s3
    \/ download_files_to_s3_skip
    \/ download_files_to_s3_loop
    \/ download_files_to_s3_upload
    \/ download_files_to_s3_remove
    \/ download_files_to_s3_exit
    \/ Call_upload_directory
    \/ upload_directory_command
    \/ upload_directory_filter
    \/ upload_directory_call

Spec == Init /\ [][Next]_vars

----------------------------------------------------------------------------
(* Properties *)

EventsOf(e) == { k \in 1..Len(trace) : trace[k].ev = e }

Range(f) == { f[k] : k \in DOMAIN f }

RECURSIVE UrlsOf(_)
\* the urls of the download_file calls of a trace, in order
UrlsOf(t) ==
    IF t = <<>> THEN <<>>
    ELSE (IF Head(t).ev = "download_file" THEN <<Head(t).url>> ELSE <<>>)
         \o UrlsOf(Tail(t))

\* C1: download_files calls download_file with the destination
\* output_dir/basename(url) for every URL it does not skip, and once it has
\* returned with every fetch successful, basename(url) is a file of
\* output_dir for each of these URLs.
C1_DestinationInOutputDir ==
    op = "download_files" =>
       /\ \A k \in EventsOf("download_file") :
             trace[k].path = PathJoin(output_dir, Basename(trace[k].url))
       /\ (pc = "done" /\ exc = "none" /\ \A k \in EventsOf("curl") : trace[k].rc = 0)
             => \A i \in 1..Len(urls) :
                   urls[i] \notin skip_urls
                      => PathJoin(output_dir, Basename(urls[i])) \in files

\* C2: when download_files has ended and the directory could be listed, the
\* URLs a download was attempted for are, in order and once per occurrence,
\* the URLs whose basename was not in the listing (skip_existing) or all the
\* URLs (not skip_existing).
C2_AttemptedIffNotPresent ==
    (op = "download_files" /\ pc = "done" /\ ~(exc # "none" /\ trace = <<>>))
       => UrlsOf(trace) =
             SelectSeq(urls, LAMBDA u : ~skip_existing \/ Basename(u) \notin listing)

\* C3: with skip_existing, download_files_to_s3 neither downloads nor uploads
\* a URL whose key prefix/basename(url) was an object of the bucket when the
\* call began.
C3_ExistingKeysSkipped ==
    (op = "download_files_to_s3" /\ skip_existing)
       => \A k \in EventsOf("download_file") \cup EventsOf("upload_file") :
             KeyOf(prefix, trace[k].url) \notin bucket0

\* what one URL of the pipeline does, in order
StepsOf(pfx, u) ==
    LET local_path == PathJoin(TmpDir, Basename(u))
    IN << <<"download_file", u, local_path, None>>,
          <<"curl", u, local_path, None>>,
          <<"upload_file", u, local_path, KeyOf(pfx, u)>>,
          <<"remove", u, local_path, None>> >>

RECURSIVE ExpectedSteps(_, _, _)
ExpectedSteps(pfx, us, skip) ==
    IF us = <<>> THEN <<>>
    ELSE (IF Head(us) \in skip THEN <<>> ELSE StepsOf(pfx, Head(us)))
         \o ExpectedSteps(pfx, Tail(us), skip)

Steps == [k \in 1..Len(trace) |->
             <<trace[k].ev, trace[k].url, trace[k].path, trace[k].key>>]

\* C4: download_files_to_s3 takes the URLs it does not skip in input order
\* and does, for each, download to tmp_dir/basename, upload to
\* prefix/basename, removal of the scratch file, in this order; a download
\* begins with no scratch file left, at most one scratch file exists at any
\* moment, and none when the loop has ended normally.
C4_PipelineOrder ==
    op = "download_files_to_s3" =>
       LET expected == ExpectedSteps(prefix, urls, skip_urls)
       IN /\ Len(Steps) <= Len(expected)
          /\ Steps = SubSeq(expected, 1, Len(Steps))
          /\ Cardinality(ScratchFiles) <= 1
          /\ pc = "dl_makedirs" => ScratchFiles = {}
          /\ (pc = "s3_exit" /\ exc = "none")
                => Steps = expected /\ ScratchFiles = {}

C4_Witness ==
    /\ op = "download_files_to_s3"
    /\ pc = "s3_exit" /\ exc = "none"
    /\ Len(urls) = 2 /\ urls[1] # urls[2]
    /\ Len(trace) = 8

\* C5: when download_files_to_s3 has ended, normally or by an exception, the
\* temporary directory and every scratch file in it are gone.
C5_TmpDirRemoved ==
    (op = "download_files_to_s3" /\ pc = "done")
       => TmpDir \notin dirs /\ ScratchFiles = {}

\* the call ended by a failed upload, whose scratch file had been written
C5_Witness ==
    /\ op = "download_files_to_s3" /\ pc = "done"
    /\ exc = "S3UploadFailedError"
    /\ trace # <<>> /\ trace[Len(trace)].ev = "curl"

\* C6: after a fetch that failed, download_file does not return normally: an
\* error is propagating.
C6_FetchFailureSurfaced ==
    curl_rc # 0 => exc # "none"

\* C7: download_file(url) without output_path ensures the parent directory
\* without raising and then runs the fetch, writing to basename(url).
C7_DefaultPathFetched ==
    (op = "download_file" /\ pc = "done" /\ trace[1].path = None)
       => /\ exc = "none"
          /\ \E k \in EventsOf("curl") : trace[k].path = <<Basename(dl_url)>>

\* C8: the mode rclone is started with is "sync" exactly when
\* remove_deleted_files is true and "copy" otherwise, whether dir_files is
\* given or not.
C8_ModeReachesTool ==
    (op = "upload_directory" /\ rclone_argv # <<>>)
       => /\ rclone_argv[2] = "sync" <=> remove_deleted_files
          /\ rclone_argv[2] = "copy" <=> ~remove_deleted_files

C8_Witness ==
    /\ op = "upload_directory" /\ pc = "done"
    /\ rclone_argv # <<>> /\ rclone_argv[2] = "sync"
    /\ has_dir_files

HasOption(argv, o) == \E k \in 1..Len(argv) : argv[k] = o

\* a dotfile: the name starts with "."
Hidden(n) == Chars(n)[1] = "."

\* with dir_files: only --files-from, on a list file holding the paths
C9_FileListOnly ==
    (op = "upload_directory" /\ rclone_argv # <<>> /\ has_dir_files)
       => /\ HasOption(rclone_argv, "--files-from")
          /\ ~HasOption(rclone_argv, "--exclude")
          /\ ReadLines(list_file) = dir_files
          /\ transferred \subseteq Range(dir_files)

\* without dir_files: only --exclude, with a pattern that excludes dotfiles
C9_HiddenExcluded ==
    (op = "upload_directory" /\ rclone_argv # <<>> /\ ~has_dir_files)
       => /\ HasOption(rclone_argv, "--exclude")
          /\ ~HasOption(rclone_argv, "--files-from")
          /\ \A n \in transferred : ~Hidden(n)

\* C9: upload_directory gives rclone one filter: with dir_files the file
\* list, holding the given paths in order, so that nothing outside the list
\* is transferred; without dir_files the exclude filter for dotfiles.
C9_ExactlyOneFilter == C9_FileListOnly /\ C9_HiddenExcluded

\* C10: when upload_directory has ended, the temporary directory it made
\* and the file_list.txt in it are gone.
C10_TempReleased ==
    (op = "upload_directory" /\ pc = "done")
       => UploadTmpDir \notin dirs /\ TempPath \notin files

====
